---- MODULE Spec2Model ----
\* FocusMode study sessions: the page controller SesiBelajarPage
\* (src/src/pages/sesi-belajar/sesi-belajar-page.js) over its two sources, the
\* Remote (Api.sessions, backed by the study_sessions table of src/api/index.js)
\* and the Local Store (DB).
\*
\* Every async method of the controller is cut at its awaits: a begin action runs
\* the synchronous code up to the first await, ApiResolve / ApiReject / DBResolve /
\* DBReject settle the awaited call, and the method's resume action runs the
\* continuation up to the next await or to the end of the method.
\*
\* Spec is the page with one invocation at a time and the user signing in and
\* out; SpecFresh is the page over new stores, which come to hold MaxId sessions;
\* SpecPair is the page with two invocations in flight; SpecHttp is the HTTP
\* handler of src/api/index.js over its tables; SpecRegister is that handler
\* serving two registrations at once; SpecDb is the Database class of
\* src/api/index.js with two of its methods in flight.
EXTENDS Integers, Sequences, FiniteSets, TLC

\* Largest id either store hands out (bounds the number of creates per store).
MaxId == 2

\* form.dataset.editId absent / entity without an id.
NoId == 0

Ids == 1..MaxId

Statuses == {"planned", "inprogress", "completed"}

\* Controller invocations that may be in flight.
Tasks == {"t1"}

\* Two invocations in flight at once: the user triggers the second handler while
\* the first is suspended at an await.
PairTasks == {"t1", "t2"}

VARIABLES
    loggedIn,      \* Api.auth.isLoggedIn()
    remote,        \* rows of study_sessions of the signed-in user
    nextRemoteId,  \* the SERIAL sequence of study_sessions.id
    local,         \* records of the Local Store collection 'sessions'
    nextLocalId,   \* the Local Store's id generator
    sessions,      \* this.sessions
    listening,     \* setupEventListeners has run: the View can trigger mutations
    task,          \* per invocation: method, position, locals, calls made, toasts shown
    hist,          \* summary of the invocation that returned last
    hash,          \* window.location.hash
    users,         \* rows of the table users
    userSeq,       \* the SERIAL sequence of users.id
    studyRows,     \* rows of the table study_sessions, of every user
    studySeq,      \* the SERIAL sequence of study_sessions.id
    noteRows,      \* rows of the table notes
    noteSeq,       \* the SERIAL sequence of notes.id
    req,           \* per HTTP request in flight: route, token, body, position, responses
    db,            \* the Database instance: this.pool, the Pools it constructed
    settings,      \* user_id of the rows of the table user_settings
    stats,         \* rows of the table study_stats for today's date
    call           \* per call of a Database method: method, position, locals, clients

vars == <<loggedIn, remote, nextRemoteId, local, nextLocalId, sessions, listening, task, hist, hash,
          users, userSeq, studyRows, studySeq, noteRows, noteSeq, req,
          db, settings, stats, call>>

\* The page in the browser.
page == <<loggedIn, remote, nextRemoteId, local, nextLocalId, sessions, listening, task, hist, hash>>

\* The database behind the HTTP handler.
tables == <<users, userSeq, studyRows, studySeq, noteRows, noteSeq>>

\* The serverless function and its database.
server == <<tables, req>>

\* The Database instance, its calls and the tables only it writes.
database == <<db, settings, stats, call>>

stores == <<remote, nextRemoteId, local, nextLocalId>>

----------------------------------------------------------------------------
\* Values

NoSession == [id |-> NoId, status |-> "planned"]

\* The route that shows SesiBelajarPage, and the one startSession navigates to.
PageHash == "#/sesi-belajar"

FocusHash == "#/focus-mode"

NoResp == [st |-> "none", rows |-> <<>>, ent |-> NoSession]

IdleTask ==
    [op |-> "idle", pc |-> "idle", id |-> NoId, data |-> NoSession,
     resp |-> NoResp, calls |-> <<>>, toasts |-> <<>>,
     newRemote |-> NoId, newLocal |-> NoId, before |-> <<>>, outcome |-> "pending",
     timers |-> 0, fired |-> 0]

NoHist == [op |-> "none", src |-> "none", newRemote |-> NoId, newLocal |-> NoId, id |-> NoId]

Range(s) == {s[i] : i \in 1..Len(s)}

IdsOf(s) == {s[i].id : i \in 1..Len(s)}

\* Array.prototype.findIndex(s => s.id === id); 0 stands for -1.
FindIndex(ss, id) ==
    IF \E i \in 1..Len(ss) : ss[i].id = id
    THEN CHOOSE i \in 1..Len(ss) :
             ss[i].id = id /\ \A j \in 1..(i - 1) : ss[j].id # id
    ELSE 0

\* Array.prototype.filter
RECURSIVE FilterOut(_, _)
FilterOut(ss, id) ==
    IF ss = <<>> THEN <<>>
    ELSE IF Head(ss).id = id THEN FilterOut(Tail(ss), id)
         ELSE <<Head(ss)>> \o FilterOut(Tail(ss), id)

----------------------------------------------------------------------------
\* Remote: the study_sessions table behind Api.sessions.*

\* ORDER BY created_at DESC. created_at defaults to CURRENT_TIMESTAMP at the INSERT
\* and is never updated, so it orders the rows as the SERIAL id does.
RECURSIVE OrderByCreatedDesc(_)
OrderByCreatedDesc(rows) ==
    IF rows = {} THEN <<>>
    ELSE LET r == CHOOSE x \in rows : \A y \in rows : y.id <= x.id
         IN  <<r>> \o OrderByCreatedDesc(rows \ {r})

\* SELECT * FROM study_sessions WHERE user_id = $1 ORDER BY created_at DESC
getSessionsByUserId(rows) == OrderByCreatedDesc(rows)

\* Mutant: the row is inserted for another user_id, so the owner never reads it.
createSessionForeign(rows, newId, data) == rows

\* INSERT INTO study_sessions (...) VALUES (...) RETURNING id
createSession(rows, newId, data) ==
    rows \cup {[id |-> newId, status |-> data.status]}

\* UPDATE study_sessions SET ..., status = $5 WHERE id = $6
updateSession(rows, id, data) ==
    {IF r.id = id THEN [r EXCEPT !.status = data.status] ELSE r : r \in rows}

\* DELETE FROM study_sessions WHERE id = $1
deleteSession(rows, id) == {r \in rows : r.id # id}

\* Mutant: the UPDATE has no WHERE clause.
startSessionAll(rows, id) == {[r EXCEPT !.status = "inprogress"] : r \in rows}

\* UPDATE study_sessions SET status = 'inprogress' WHERE id = $1
startSession(rows, id) ==
    {IF r.id = id THEN [r EXCEPT !.status = "inprogress"] ELSE r : r \in rows}

\* UPDATE study_sessions SET status = 'completed' WHERE id = $1
completeSession(rows, id) ==
    {IF r.id = id THEN [r EXCEPT !.status = "completed"] ELSE r : r \in rows}

----------------------------------------------------------------------------
\* Local Store: DB.getAll / DB.set / DB.delete on the collection 'sessions'

RECURSIVE OrderById(_)
OrderById(recs) ==
    IF recs = {} THEN <<>>
    ELSE LET r == CHOOSE x \in recs : \A y \in recs : x.id <= y.id
         IN  <<r>> \o OrderById(recs \ {r})

DBGetAll(recs) == OrderById(recs)

\* The entity DB.set stores and returns: a fresh id when the entity has none.
DBSaved(newId, entity) ==
    IF entity.id = NoId THEN [entity EXCEPT !.id = newId] ELSE entity

\* Inserts if no id, else overwrites the record with that id.
DBSet(recs, newId, entity) ==
    {r \in recs : r.id # DBSaved(newId, entity).id} \cup {DBSaved(newId, entity)}

DBDelete(recs, id) == {r \in recs : r.id # id}

----------------------------------------------------------------------------
\* Positions: the await a task is suspended at

RemoteReadPcs == {"L_remote", "S_getAll", "D_getAll", "T_getAll", "C_getAll"}

RemoteWritePcs == {"S_create", "S_update", "D_delete", "T_start", "C_complete"}

LocalReadPcs == {"L_local", "L_fallback"}

LocalWritePcs == {"S_set", "T_set", "C_set", "D_dbdelete"}

\* The call awaited at each position.
CallAt(pc) ==
    CASE pc \in RemoteReadPcs -> "Api.sessions.getAll"
      [] pc = "S_create"      -> "Api.sessions.create"
      [] pc = "S_update"      -> "Api.sessions.update"
      [] pc = "D_delete"      -> "Api.sessions.delete"
      [] pc = "T_start"       -> "Api.sessions.start"
      [] pc = "C_complete"    -> "Api.sessions.complete"
      [] pc \in LocalReadPcs  -> "DB.getAll"
      [] pc = "D_dbdelete"    -> "DB.delete"
      [] OTHER                -> "DB.set"

RemoteCalls ==
    {"Api.sessions.getAll", "Api.sessions.create", "Api.sessions.update",
     "Api.sessions.delete", "Api.sessions.start", "Api.sessions.complete"}

RemoteWrites == RemoteCalls \ {"Api.sessions.getAll"}

LocalWrites == {"DB.set", "DB.delete"}

\* The call addresses a record the store holds: DELETE / UPDATE ... WHERE id = $1
\* matches a row, DB.delete names a stored id. Calls without an id address the
\* whole collection.
Hit(pc, id, rows, recs) ==
    CASE pc \in {"S_update", "D_delete", "T_start", "C_complete"} -> \E r \in rows : r.id = id
      [] pc = "D_dbdelete" -> \E r \in recs : r.id = id
      [] OTHER -> TRUE

Call(pc, id, ok, hit) == [api |-> CallAt(pc), id |-> id, ok |-> ok, hit |-> hit]

Toast(type, message) == [type |-> type, message |-> message]

\* showSuccess / showError: dispatch a 'show-toast' event.
showSuccess(tr, message) == [tr EXCEPT !.toasts = Append(@, Toast("success", message))]

\* Mutant: showError dispatches nothing.
showErrorSilent(tr, message) == tr

showError(tr, message) == [tr EXCEPT !.toasts = Append(@, Toast("error", message))]

Awaiting(t) == task[t].pc \notin {"idle", "done"} /\ task[t].resp.st = "none"

Resumable(t) == task[t].pc \notin {"idle", "done"} /\ task[t].resp.st # "none"

AllIdle == \A t \in DOMAIN task : task[t].pc = "idle"

Set(t, tr) == task' = [task EXCEPT ![t] = tr]

\* Suspend at the await of position pc.
Await(tr, pc) == [tr EXCEPT !.pc = pc, !.resp = NoResp]

\* The async method returns: its promise resolves.
Finish(tr) == [tr EXCEPT !.pc = "done", !.resp = NoResp, !.outcome = "resolved"]

----------------------------------------------------------------------------
\* The two sources settle an awaited call

ApiResolve(t) ==
    /\ Awaiting(t)
    /\ task[t].pc \in RemoteReadPcs \cup RemoteWritePcs
    /\ LET tr == task[t]
           pc == tr.pc
           logged == [tr EXCEPT !.calls = Append(@, Call(pc, tr.id, TRUE, Hit(pc, tr.id, remote, local)))]
       IN  /\ remote' =
                 CASE pc = "S_create"   -> createSession(remote, nextRemoteId, tr.data)
                   [] pc = "S_update"   -> updateSession(remote, tr.id, tr.data)
                   [] pc = "D_delete"   -> deleteSession(remote, tr.id)
                   [] pc = "T_start"    -> startSession(remote, tr.id)
                   [] pc = "C_complete" -> completeSession(remote, tr.id)
                   [] OTHER             -> remote
           /\ nextRemoteId' = IF pc = "S_create" THEN nextRemoteId + 1 ELSE nextRemoteId
           /\ Set(t, [logged EXCEPT !.resp =
                 [st   |-> "ok",
                  rows |-> IF pc \in RemoteReadPcs THEN getSessionsByUserId(remote) ELSE <<>>,
                  ent  |-> IF pc = "S_create"
                           THEN [NoSession EXCEPT !.id = nextRemoteId]
                           ELSE NoSession]])
    /\ UNCHANGED <<database, server, hash, loggedIn, local, nextLocalId, sessions, listening, hist>>

\* Network / auth error or a non-2xx answer: the call throws, no row changes.
ApiReject(t) ==
    /\ Awaiting(t)
    /\ task[t].pc \in RemoteReadPcs \cup RemoteWritePcs
    /\ Set(t, [task[t] EXCEPT !.calls = Append(@, Call(task[t].pc, task[t].id, FALSE,
                                                          Hit(task[t].pc, task[t].id, remote, local))),
                              !.resp = [NoResp EXCEPT !.st = "err"]])
    /\ UNCHANGED <<database, server, hash, loggedIn, stores, sessions, listening, hist>>

DBResolve(t) ==
    /\ Awaiting(t)
    /\ task[t].pc \in LocalReadPcs \cup LocalWritePcs
    /\ LET tr == task[t]
           pc == tr.pc
           isSet == pc \in {"S_set", "T_set", "C_set"}
           logged == [tr EXCEPT !.calls = Append(@, Call(pc, tr.id, TRUE, Hit(pc, tr.id, remote, local)))]
       IN  /\ local' =
                 CASE isSet             -> DBSet(local, nextLocalId, tr.data)
                   [] pc = "D_dbdelete" -> DBDelete(local, tr.id)
                   [] OTHER             -> local
           /\ nextLocalId' =
                 IF isSet /\ tr.data.id = NoId THEN nextLocalId + 1 ELSE nextLocalId
           /\ Set(t, [logged EXCEPT !.resp =
                 [st   |-> "ok",
                  rows |-> IF pc \in LocalReadPcs THEN DBGetAll(local) ELSE <<>>,
                  ent  |-> IF isSet THEN DBSaved(nextLocalId, tr.data) ELSE NoSession]])
    /\ UNCHANGED <<database, server, hash, loggedIn, remote, nextRemoteId, sessions, listening, hist>>

\* Storage-medium error (quota exceeded, medium unavailable): the call throws.
DBReject(t) ==
    /\ Awaiting(t)
    /\ task[t].pc \in LocalReadPcs \cup LocalWritePcs
    /\ Set(t, [task[t] EXCEPT !.calls = Append(@, Call(task[t].pc, task[t].id, FALSE,
                                                          Hit(task[t].pc, task[t].id, remote, local))),
                              !.resp = [NoResp EXCEPT !.st = "err"]])
    /\ UNCHANGED <<database, server, hash, loggedIn, stores, sessions, listening, hist>>

----------------------------------------------------------------------------
\* SesiBelajarPage.loadSessions

\* Mutant: loadSessions reads the Local Store whatever the authentication state.
LoadEntryLocal(isLogged) == "L_local"

\* The first await of loadSessions: Api.sessions.getAll when logged in, else DB.getAll.
LoadEntry(isLogged) == IF isLogged THEN "L_remote" ELSE "L_local"

\* A call of this.loadSessions(), from afterRender or from a catch block.
CallLoadSessions(tr) == Await(tr, LoadEntry(loggedIn))

\* Mutant: loadSessions has no catch, the Remote failure rejects its promise.
LoadCatchRethrow(tr) == [tr EXCEPT !.pc = "done", !.resp = NoResp, !.outcome = "rejected"]

\* catch (error) of loadSessions: log, then fall back to DB.getAll('sessions').
\* Mutant: the catch block writes this.sessions' entity back to the Local Store.
LoadCatchWriting(tr) == Await(tr, "S_set")

LoadCatch(tr) == Await(tr, "L_fallback")

\* catch (dbError): showError('Gagal memuat sesi belajar').
LoadFallbackFailed(tr) == Finish(showError(tr, "Gagal memuat sesi belajar"))

\* Mutant: the awaited collection is dropped and the old array kept.
ReloadedKeep(ss, rows) == ss

\* Mutant: the awaited collection is merged into the old array.
ReloadedAppend(ss, rows) == ss \o rows

\* this.sessions = await <getAll>; this.renderSessions()
\* Mutant: a response that holds fewer sessions than the page shows is dropped.
ReloadedUnlessShorter(ss, rows) == IF Len(rows) < Len(ss) THEN ss ELSE rows

Reloaded(ss, rows) == rows

LoadSessions(t) ==
    /\ task[t].pc = "idle"
    /\ Set(t, CallLoadSessions([IdleTask EXCEPT !.op = "load", !.before = sessions]))
    /\ UNCHANGED <<database, server, hash, loggedIn, stores, sessions, listening, hist>>

LoadSessionsResume(t) ==
    /\ Resumable(t)
    /\ task[t].pc \in {"L_remote", "L_local", "L_fallback"}
    /\ LET tr == task[t]
       IN  \/ /\ tr.resp.st = "ok"
              /\ sessions' = Reloaded(sessions, tr.resp.rows)
              /\ Set(t, Finish(tr))
           \/ /\ tr.resp.st = "err"
              /\ tr.pc \in {"L_remote", "L_local"}
              /\ Set(t, LoadCatch(tr))
              /\ UNCHANGED sessions
           \/ /\ tr.resp.st = "err"
              /\ tr.pc = "L_fallback"
              /\ Set(t, LoadFallbackFailed(tr))
              /\ UNCHANGED sessions
    /\ UNCHANGED <<database, server, hash, loggedIn, stores, listening, hist>>

----------------------------------------------------------------------------
\* SesiBelajarPage.handleSessionSubmit

\* Mutant: the catch block reloads without telling the user.
MutationCatchSilent(tr, message) == CallLoadSessions(tr)

\* catch (error) of a mutation: showError(message), then await this.loadSessions().
MutationCatch(tr, message) == CallLoadSessions(showError(tr, message))

\* this.sessions[index] = saved, when findIndex found the id.
PatchReplace(ss, id, saved) ==
    IF FindIndex(ss, id) # 0 THEN [ss EXCEPT ![FindIndex(ss, id)] = saved] ELSE ss

\* this.sessions.push(savedSession)
PatchPush(ss, saved) == Append(ss, saved)

\* this.sessions = this.sessions.filter(s => s.id !== id)
PatchFilter(ss, id) == FilterOut(ss, id)

\* Mutant: a create numbers the entity itself, by the length of this.sessions.
LocalSessionDataNumbered(editId, status) ==
    [id |-> IF editId # NoId THEN editId ELSE Len(sessions) + 1, status |-> status]

\* The sessionData the Local Store branch hands to DB.set: an edit carries the id
\* of the form, a create carries none.
LocalSessionData(editId, status) == [id |-> editId, status |-> status]

\* The first await of handleSessionSubmit.
SubmitEntry(isLogged, editId) ==
    IF isLogged THEN (IF editId # NoId THEN "S_update" ELSE "S_create") ELSE "S_set"

SuccessMessage(editId) ==
    IF editId # NoId THEN "Sesi berhasil diperbarui" ELSE "Sesi berhasil dibuat"

\* editId: form.dataset.editId, set by editSession from an entity of this.sessions.
HandleSessionSubmit(t) ==
    /\ task[t].pc = "idle"
    /\ \E editId \in {NoId} \cup IdsOf(sessions), status \in Statuses :
          /\ editId = NoId => IF loggedIn THEN nextRemoteId <= MaxId
                                          ELSE nextLocalId <= MaxId
          /\ Set(t, Await([IdleTask EXCEPT
                              !.op = "submit",
                              !.id = editId,
                              !.data = IF loggedIn
                                       THEN [NoSession EXCEPT !.status = status]
                                       ELSE LocalSessionData(editId, status)],
                          SubmitEntry(loggedIn, editId)))
    /\ UNCHANGED <<database, server, hash, loggedIn, stores, sessions, listening, hist>>

HandleSessionSubmitResume(t) ==
    /\ Resumable(t)
    /\ task[t].pc \in {"S_update", "S_create", "S_getAll", "S_set"}
    /\ LET tr == task[t]
       IN  \/ /\ tr.resp.st = "ok"
              /\ tr.pc \in {"S_update", "S_create"}
              /\ Set(t, Await([tr EXCEPT !.newRemote = tr.resp.ent.id], "S_getAll"))
              /\ UNCHANGED sessions
           \/ /\ tr.resp.st = "ok"
              /\ tr.pc = "S_getAll"
              /\ sessions' = Reloaded(sessions, tr.resp.rows)
              /\ Set(t, Finish(showSuccess(tr, SuccessMessage(tr.id))))
           \/ /\ tr.resp.st = "ok"
              /\ tr.pc = "S_set"
              /\ sessions' = IF tr.id # NoId
                             THEN PatchReplace(sessions, tr.id, tr.resp.ent)
                             ELSE PatchPush(sessions, tr.resp.ent)
              /\ Set(t, Finish(showSuccess(
                     [tr EXCEPT !.newLocal = IF tr.id = NoId THEN tr.resp.ent.id ELSE NoId],
                     SuccessMessage(tr.id))))
           \/ /\ tr.resp.st = "err"
              /\ Set(t, MutationCatch(tr, "Gagal menyimpan sesi"))
              /\ UNCHANGED sessions
    /\ UNCHANGED <<database, server, hash, loggedIn, stores, listening, hist>>

----------------------------------------------------------------------------
\* SesiBelajarPage.deleteSession

DeleteSession(t) ==
    /\ task[t].pc = "idle"
    /\ \E id \in Ids, confirmed \in BOOLEAN :
          LET tr == [IdleTask EXCEPT !.op = "delete", !.id = id, !.before = sessions]
          IN  Set(t, IF ~confirmed THEN Finish(tr)
                     ELSE Await(tr, IF loggedIn THEN "D_delete" ELSE "D_dbdelete"))
    /\ UNCHANGED <<database, server, hash, loggedIn, stores, sessions, listening, hist>>

DeleteSessionResume(t) ==
    /\ Resumable(t)
    /\ task[t].pc \in {"D_delete", "D_getAll", "D_dbdelete"}
    /\ LET tr == task[t]
       IN  \/ /\ tr.resp.st = "ok"
              /\ tr.pc = "D_delete"
              /\ Set(t, Await(tr, "D_getAll"))
              /\ UNCHANGED sessions
           \/ /\ tr.resp.st = "ok"
              /\ tr.pc = "D_getAll"
              /\ sessions' = Reloaded(sessions, tr.resp.rows)
              /\ Set(t, Finish(showSuccess(tr, "Sesi berhasil dihapus")))
           \/ /\ tr.resp.st = "ok"
              /\ tr.pc = "D_dbdelete"
              /\ sessions' = PatchFilter(sessions, tr.id)
              /\ Set(t, Finish(showSuccess(tr, "Sesi berhasil dihapus")))
           \/ /\ tr.resp.st = "err"
              /\ Set(t, MutationCatch(tr, "Gagal menghapus sesi"))
              /\ UNCHANGED sessions
    /\ UNCHANGED <<database, server, hash, loggedIn, stores, listening, hist>>

----------------------------------------------------------------------------
\* SesiBelajarPage.startSession / completeSession

\* Mutant: an id that is not in this.sessions makes the method return silently.
NotFoundSilent(tr) == Finish(tr)

\* if (!session) { this.showError('Sesi tidak ditemukan'); return; }
NotFound(tr) == Finish(showError(tr, "Sesi tidak ditemukan"))

\* const session = this.sessions.find(s => s.id === id); session.status = status
\* writes through to the element of this.sessions.
Transition(t, op, status, remotePc, localPc) ==
    /\ task[t].pc = "idle"
    /\ \E id \in Ids :
          LET tr == [IdleTask EXCEPT !.op = op, !.id = id, !.before = sessions]
              i  == FindIndex(sessions, id)
          IN  IF i = 0
              THEN /\ Set(t, NotFound(tr))
                   /\ UNCHANGED sessions
              ELSE IF loggedIn
              THEN /\ Set(t, Await(tr, remotePc))
                   /\ UNCHANGED sessions
              ELSE /\ sessions' = [sessions EXCEPT ![i].status = status]
                   /\ Set(t, Await([tr EXCEPT !.data = [sessions[i] EXCEPT !.status = status]],
                                   localPc))
    /\ UNCHANGED <<database, server, hash, loggedIn, stores, listening, hist>>

\* Mutant: no navigation is scheduled.
setTimeoutNever(tr) == tr

\* setTimeout(() => { window.location.hash = '#/focus-mode' }, 500)
setTimeout(tr) == [tr EXCEPT !.timers = @ + 1]

\* The end of the try block: the toast, and in startSession the delayed navigation.
Succeeded(tr, okMessage, navigates) ==
    IF navigates THEN setTimeout(showSuccess(tr, okMessage)) ELSE showSuccess(tr, okMessage)

TransitionResume(t, remotePc, reloadPc, localPc, okMessage, errMessage, navigates) ==
    /\ Resumable(t)
    /\ task[t].pc \in {remotePc, reloadPc, localPc}
    /\ LET tr == task[t]
       IN  \/ /\ tr.resp.st = "ok"
              /\ tr.pc = remotePc
              /\ Set(t, Await(tr, reloadPc))
              /\ UNCHANGED sessions
           \/ /\ tr.resp.st = "ok"
              /\ tr.pc = reloadPc
              /\ sessions' = Reloaded(sessions, tr.resp.rows)
              /\ Set(t, Finish(Succeeded(tr, okMessage, navigates)))
           \/ /\ tr.resp.st = "ok"
              /\ tr.pc = localPc
              /\ sessions' = PatchReplace(sessions, tr.id, tr.data)
              /\ Set(t, Finish(Succeeded(tr, okMessage, navigates)))
           \/ /\ tr.resp.st = "err"
              /\ Set(t, MutationCatch(tr, errMessage))
              /\ UNCHANGED sessions
    /\ UNCHANGED <<database, server, hash, loggedIn, stores, listening, hist>>

StartSession(t) == Transition(t, "start", "inprogress", "T_start", "T_set")

StartSessionResume(t) ==
    TransitionResume(t, "T_start", "T_getAll", "T_set",
                     "Sesi berhasil dimulai", "Gagal memulai sesi", TRUE)

CompleteSession(t) == Transition(t, "complete", "completed", "C_complete", "C_set")

CompleteSessionResume(t) ==
    TransitionResume(t, "C_complete", "C_getAll", "C_set",
                     "Sesi berhasil diselesaikan", "Gagal menyelesaikan sesi", FALSE)

----------------------------------------------------------------------------
\* The HTTP handler of src/api/index.js (module.exports = async function handler)
\* over its PostgreSQL tables. A request is cut at its awaits like a controller
\* invocation: Handle runs the handler up to the first pool.query, Query lets the
\* database execute the awaited statement and runs the continuation up to the
\* next await or to the response, QueryFail makes the awaited statement throw.

\* Largest users.id handed out (bounds the number of registrations).
MaxUsers == 2

\* Largest study_sessions.id and notes.id handed out (bounds the inserts per table).
MaxRows == 2

\* HTTP requests that may be in flight.
Reqs == {"q1"}

Emails == {"a@x.id", "b@x.id"}

\* Authorization header: absent, a bearer token jwt.verify rejects (malformed,
\* wrongly signed, expired), or the token issued to a registered user, which
\* carries that user's id.
NoToken == 0

BadToken == -1

Tokens == {NoToken, BadToken} \cup {u.id : u \in users}

Routes ==
    {"OPTIONS", "GET /health", "POST /auth/register", "POST /auth/login",
     "GET /sessions", "POST /sessions", "GET /notes", "POST /notes",
     "GET /stats/today", "other"}

Protected == {"GET /sessions", "POST /sessions", "GET /notes", "POST /notes", "GET /stats/today"}

\* req.body, by what the handler distinguishes: register tells missing fields, a
\* malformed email and a short password from a well-formed body; login tells
\* missing fields and a wrong password; POST /sessions and POST /notes tell a
\* missing title (or content).
NoBody == [kind |-> "ok", email |-> "a@x.id", status |-> "planned"]

Bodies(route) ==
    CASE route = "POST /auth/register" ->
             {[NoBody EXCEPT !.kind = k, !.email = e] :
                 k \in {"ok", "missing", "bademail", "shortpw"}, e \in Emails}
      [] route = "POST /auth/login" ->
             {[NoBody EXCEPT !.kind = k, !.email = e] :
                 k \in {"ok", "missing", "wrongpw"}, e \in Emails}
      [] route = "POST /sessions" ->
             {[NoBody EXCEPT !.kind = k, !.status = st] :
                 k \in {"ok", "missing"}, st \in {"planned", "completed"}}
      [] route = "POST /notes" -> {[NoBody EXCEPT !.kind = k] : k \in {"ok", "missing"}}
      [] OTHER -> {NoBody}

NoRows == {}

\* res.status(status).json(body): the status, the keys of the body, and what the
\* body carries of the tables (rows selected, id inserted).
Response(status, keys, rows, id) == [status |-> status, keys |-> keys, rows |-> rows, id |-> id]

IdleReq ==
    [pc |-> "idle", route |-> "other", token |-> NoToken, body |-> NoBody,
     user |-> 0, sent |-> <<>>, queries |-> 0]

\* Mutant: a bearer token that fails verification is treated as no token.
authenticateTokenLax(token) ==
    IF token = NoToken THEN [error |-> "Access token required", status |-> 401, user |-> 0]
    ELSE IF token = BadToken THEN [error |-> "", status |-> 200, user |-> 1]
    ELSE [error |-> "", status |-> 200, user |-> token]

\* authenticateToken(req): { error, status } or { user }.
authenticateToken(token) ==
    IF token = NoToken THEN [error |-> "Access token required", status |-> 401, user |-> 0]
    ELSE IF token = BadToken THEN [error |-> "Invalid token", status |-> 403, user |-> 0]
    ELSE [error |-> "", status |-> 200, user |-> token]

\* return res.status(...).json(...): the response is sent and the handler returns.
Send(rq, resp) == [rq EXCEPT !.pc = "done", !.sent = Append(@, resp)]

\* { error, message } bodies of the handler itself.
ErrorBody(rq, status) == Send(rq, Response(status, {"error", "message"}, NoRows, 0))

\* if (auth.error) return res.status(auth.status).json({ error: auth.error })
AuthErrorBody(rq, auth) == Send(rq, Response(auth.status, {"error"}, NoRows, 0))

\* Suspend at await pool.query(...).
AwaitQuery(rq, pc) == [rq EXCEPT !.pc = pc]

\* The first statement a protected route awaits once authenticated and validated.
ProtectedEntry(route) ==
    CASE route = "GET /sessions"  -> "SG_select"
      [] route = "POST /sessions" -> "SP_insert"
      [] route = "GET /notes"     -> "NG_select"
      [] route = "POST /notes"    -> "NP_insert"
      [] OTHER                    -> "ST_select"

\* The handler from its entry to the first await or to an early response.
Entered(rq) ==
    LET auth == authenticateToken(rq.token)
    IN  CASE rq.route = "OPTIONS" -> Send(rq, Response(200, {}, NoRows, 0))
          [] rq.route = "GET /health" -> AwaitQuery(rq, "H_select")
          [] rq.route = "POST /auth/register" ->
                 IF rq.body.kind = "ok" THEN AwaitQuery(rq, "R_select") ELSE ErrorBody(rq, 400)
          [] rq.route = "POST /auth/login" ->
                 IF rq.body.kind = "missing" THEN ErrorBody(rq, 400)
                 ELSE AwaitQuery(rq, "L_select")
          [] rq.route \in Protected ->
                 IF auth.error # "" THEN AuthErrorBody(rq, auth)
                 ELSE IF rq.route \in {"POST /sessions", "POST /notes"} /\ rq.body.kind = "missing"
                 THEN ErrorBody([rq EXCEPT !.user = auth.user], 400)
                 ELSE AwaitQuery([rq EXCEPT !.user = auth.user], ProtectedEntry(rq.route))
          [] OTHER -> ErrorBody(rq, 404)

SetReq(q, rq) == req' = [req EXCEPT ![q] = rq]

\* A request arrives and the handler runs up to its first await. The routes that
\* never read the Authorization header are requested without one.
Handle(q) ==
    /\ req[q].pc = "idle"
    /\ \E route \in Routes, token \in Tokens :
          \E body \in Bodies(route) :
              /\ (route = "POST /auth/register" /\ body.kind = "ok") => userSeq <= MaxUsers
              /\ (route = "POST /sessions" /\ body.kind = "ok") => studySeq <= MaxRows
              /\ (route = "POST /notes" /\ body.kind = "ok") => noteSeq <= MaxRows
              /\ route \notin Protected => token = NoToken
              /\ SetReq(q, Entered([IdleReq EXCEPT !.route = route, !.token = token,
                                                   !.body = body]))
    /\ UNCHANGED <<page, database, tables>>

\* SELECT ... / INSERT ... with the request's parameters
UsersByEmail(email) == {u \in users : u.email = email}

\* SELECT * FROM <table> WHERE user_id = $1
OwnRows(rows, userId) == {r \in rows : r.user_id = userId}

\* The awaited statement executes and the handler continues.
Query(q) ==
    /\ req[q].pc \notin {"idle", "done"}
    /\ LET rq == [req[q] EXCEPT !.queries = @ + 1]
           pc == req[q].pc
           uniqueViolation == pc = "R_insert" /\ UsersByEmail(rq.body.email) # {}
           foreignKeyViolation ==
               pc \in {"SP_insert", "NP_insert"} /\ ~\E u \in users : u.id = rq.user
           thrown == uniqueViolation \/ foreignKeyViolation
       IN  /\ users' =
                 IF pc = "R_insert" /\ ~thrown
                 THEN users \cup {[id |-> userSeq, email |-> rq.body.email]}
                 ELSE users
           /\ userSeq' = IF pc = "R_insert" THEN userSeq + 1 ELSE userSeq
           /\ studyRows' =
                 IF pc = "SP_insert" /\ ~thrown
                 THEN studyRows \cup {[id |-> studySeq, user_id |-> rq.user,
                                       status |-> rq.body.status]}
                 ELSE studyRows
           /\ studySeq' = IF pc = "SP_insert" THEN studySeq + 1 ELSE studySeq
           /\ noteRows' =
                 IF pc = "NP_insert" /\ ~thrown
                 THEN noteRows \cup {[id |-> noteSeq, user_id |-> rq.user]}
                 ELSE noteRows
           /\ noteSeq' = IF pc = "NP_insert" THEN noteSeq + 1 ELSE noteSeq
           /\ SetReq(q,
                 CASE thrown -> ErrorBody(rq, 500)
                   [] pc = "H_select" ->
                          Send(rq, Response(200, {"status", "service", "database", "timestamp"},
                                            NoRows, 0))
                   [] pc = "R_select" ->
                          IF UsersByEmail(rq.body.email) # {} THEN ErrorBody(rq, 409)
                          ELSE AwaitQuery(rq, "R_insert")
                   [] pc = "R_insert" ->
                          Send(rq, Response(201, {"message", "user", "token"}, NoRows, userSeq))
                   [] pc = "L_select" ->
                          IF UsersByEmail(rq.body.email) = {} \/ rq.body.kind = "wrongpw"
                          THEN ErrorBody(rq, 401)
                          ELSE AwaitQuery(rq, "L_update")
                   [] pc = "L_update" ->
                          Send(rq, Response(200, {"message", "user", "token"}, NoRows, 0))
                   [] pc = "SG_select" ->
                          Send(rq, Response(200, {}, OwnRows(studyRows, rq.user), 0))
                   [] pc = "SP_insert" ->
                          Send(rq, Response(201, {"message", "id"}, NoRows, studySeq))
                   [] pc = "NG_select" ->
                          Send(rq, Response(200, {}, OwnRows(noteRows, rq.user), 0))
                   [] pc = "NP_insert" ->
                          Send(rq, Response(201, {"message", "id"}, NoRows, noteSeq))
                   [] OTHER ->
                          Send(rq, Response(200, {"total_minutes", "total_sessions"},
                                   {r \in OwnRows(studyRows, rq.user) : r.status = "completed"}, 0)))
    /\ UNCHANGED <<page, database>>

\* pool.query rejects (connection lost, statement error): the catch block answers
\* 500 with { error, message }.
QueryFail(q) ==
    /\ req[q].pc \notin {"idle", "done"}
    /\ SetReq(q, ErrorBody([req[q] EXCEPT !.queries = @ + 1], 500))
    /\ UNCHANGED <<page, database, tables>>

\* The handler has returned; the function instance serves the next request.
Close(q) ==
    /\ req[q].pc = "done"
    /\ SetReq(q, IdleReq)
    /\ UNCHANGED <<page, database, tables>>

----------------------------------------------------------------------------
\* The Database class (src/api/index.js 293-1069): a repository over a pg
\* connection pool. A call of one of its methods is cut at its awaits: DbCall
\* runs the method up to its first await, DbResolve lets the awaited
\* pool.connect() or client.query() succeed (a statement that violates a
\* constraint throws) and runs the continuation, DbReject makes the awaited
\* promise reject because the connection failed.

\* Calls of Database methods that may be in flight; each runs one method.
DbCalls == {"d1", "d2"}

\* The minutes a caller reports to updateStudyStats.
Minutes == {25, 50}

DbOps == {"connect", "query", "createUser", "updateStudyStats", "transaction"}

\* constructor: this.pool = null. missingVars: one of PGHOST, PGDATABASE, PGUSER,
\* PGPASSWORD is not set; pools counts the Pool objects constructed.
NoPool == [missingVars |-> FALSE, pool |-> FALSE, pools |-> 0]

IdleCall ==
    [op |-> "none", pc |-> "idle", step |-> 0, email |-> "a@x.id", user |-> 1,
     minutes |-> 25, completed |-> FALSE, existing |-> FALSE, id |-> 0, log |-> <<>>,
     acquired |-> 0, released |-> 0, callback |-> "none", pending |-> "", error |-> ""]

\* Mutant: the Pool is constructed but not kept in this.pool.
NewPoolDetached(d) == [d EXCEPT !.pools = @ + 1]

\* this.pool = new Pool(this.config)
NewPool(d) == [d EXCEPT !.pool = TRUE, !.pools = @ + 1]

\* The method throws: its promise rejects with the error.
Thrown(cl, error) == [cl EXCEPT !.pc = "done", !.error = error]

\* The method returns.
Returned(cl) == [cl EXCEPT !.pc = "done"]

\* const client = await this.pool.connect() has resolved.
Acquired(cl, pc) == [cl EXCEPT !.acquired = @ + 1, !.pc = pc]

\* finally { client.release() }
release(cl) == [cl EXCEPT !.released = @ + 1]

\* await client.query(statement) of transaction()
Issue(cl, statement, pc) == [cl EXCEPT !.log = Append(@, statement), !.pc = pc]

\* Mutant: the catch block rethrows without issuing ROLLBACK.
RollbackSkipped(cl, error) == Thrown(release(cl), error)

\* catch (error) { await client.query('ROLLBACK'); throw error }
Rollback(cl, error) == Issue([cl EXCEPT !.pending = error], "ROLLBACK", "t_rollback")

\* connect(): throws on a missing environment variable, else constructs the Pool
\* and awaits a test client.
connect(cl, d) ==
    IF d.missingVars THEN [call |-> Thrown(cl, "env"), db |-> d]
    ELSE [call |-> [cl EXCEPT !.pc = "conn_acquire"], db |-> NewPool(d)]

\* query(): if (!this.pool) await this.connect(); then await this.pool.connect().
query(cl, d) ==
    IF d.pool THEN [call |-> [cl EXCEPT !.pc = "acquire"], db |-> d]
    ELSE connect(cl, d)

\* transaction(): await this.pool.connect() outside the try block; this.pool is
\* read as it is (a TypeError when it is still null).
transaction(cl, d) ==
    IF d.pool THEN [call |-> [cl EXCEPT !.pc = "t_acquire"], db |-> d]
    ELSE [call |-> Thrown(cl, "nopool"), db |-> d]

\* A method is called. connect() is what the scripts call first on a new
\* instance; updateStudyStats is called for a registered user.
DbCall(c) ==
    /\ call[c].pc = "idle"
    /\ \E op \in DbOps, email \in Emails, user \in 1..MaxUsers, minutes \in Minutes,
          completed \in BOOLEAN :
          /\ op = "connect" => db.pools = 0 /\ \A d \in DOMAIN call : call[d].pc = "idle"
          /\ op = "createUser" => userSeq <= MaxUsers
          /\ op # "createUser" => email = IdleCall.email
          /\ op = "updateStudyStats" => \E u \in users : u.id = user
          /\ op # "updateStudyStats" =>
                 user = IdleCall.user /\ minutes = IdleCall.minutes /\ ~completed
          /\ LET cl == [IdleCall EXCEPT !.op = op, !.step = 1, !.email = email,
                                        !.user = user, !.minutes = minutes,
                                        !.completed = completed]
                 next == CASE op = "connect" -> connect(cl, db)
                           [] op = "transaction" -> transaction(cl, db)
                           [] OTHER -> query(cl, db)
             IN  /\ call' = [call EXCEPT ![c] = next.call]
                 /\ db' = next.db
    /\ UNCHANGED <<page, server, settings, stats>>

\* SELECT * FROM study_stats WHERE user_id = $1 AND date = $2, for today's date
StatsOf(userId) == {s \in stats : s.user_id = userId}

\* The statement a call awaits in query(). updateStreak finds no row for
\* yesterday and issues no update.
Statement(cl) ==
    CASE cl.op = "createUser" /\ cl.step = 1 -> "INSERT users"
      [] cl.op = "createUser" /\ cl.step = 2 -> "INSERT user_settings"
      [] cl.op = "updateStudyStats" /\ cl.step = 1 -> "SELECT study_stats"
      [] cl.op = "updateStudyStats" /\ cl.step = 2 /\ cl.existing -> "UPDATE study_stats"
      [] cl.op = "updateStudyStats" /\ cl.step = 2 -> "INSERT study_stats"
      [] cl.op = "updateStudyStats" /\ cl.step = 3 -> "SELECT streak_days"
      [] OTHER -> "SELECT"

\* users.email UNIQUE, study_stats UNIQUE(user_id, date)
Violates(cl) ==
    \/ Statement(cl) = "INSERT users" /\ UsersByEmail(cl.email) # {}
    \/ Statement(cl) = "INSERT study_stats" /\ StatsOf(cl.user) # {}

\* INSERT INTO study_stats (...) VALUES ($1, $2, 1, $3, $4, 1)
InsertedStats(cl) ==
    [user_id |-> cl.user, total_sessions |-> 1, total_minutes |-> cl.minutes,
     completed_sessions |-> IF cl.completed THEN 1 ELSE 0]

\* UPDATE study_stats SET total_minutes = total_minutes + $1,
\* total_sessions = total_sessions + 1, completed_sessions = completed_sessions + $2
UpdatedStats(s, cl) ==
    [s EXCEPT !.total_sessions = @ + 1, !.total_minutes = @ + cl.minutes,
              !.completed_sessions = @ + (IF cl.completed THEN 1 ELSE 0)]

\* this.query() has returned its rows to the method, which runs up to its next
\* await or returns.
Continue(cl, d) ==
    CASE cl.op = "createUser" /\ cl.step = 1 ->
             query([cl EXCEPT !.step = 2, !.id = userSeq], d)
      [] cl.op = "updateStudyStats" /\ cl.step = 1 ->
             query([cl EXCEPT !.step = 2, !.existing = StatsOf(cl.user) # {}], d)
      [] cl.op = "updateStudyStats" /\ cl.step = 2 -> query([cl EXCEPT !.step = 3], d)
      [] OTHER -> [call |-> Returned(cl), db |-> d]

\* The awaited promise resolves and the method continues.
DbResolve(c) ==
    /\ call[c].pc \notin {"idle", "done"}
    /\ LET cl == call[c]
           pc == cl.pc
           st == Statement(cl)
           executes == pc = "sql" /\ ~Violates(cl)
           next ==
               CASE pc = "conn_acquire" -> [call |-> Acquired(cl, "conn_test"), db |-> db]
                 [] pc = "conn_test" ->
                        IF cl.op = "connect" THEN [call |-> Returned(release(cl)), db |-> db]
                        ELSE IF db.pool
                        THEN [call |-> [release(cl) EXCEPT !.pc = "acquire"], db |-> db]
                        ELSE [call |-> Thrown(release(cl), "nopool"), db |-> db]
                 [] pc = "acquire" -> [call |-> Acquired(cl, "sql"), db |-> db]
                 [] pc = "sql" ->
                        IF Violates(cl)
                        THEN [call |-> Thrown(release(cl), "constraint"), db |-> db]
                        ELSE Continue(release(cl), db)
                 [] pc = "t_acquire" ->
                        [call |-> Issue(Acquired(cl, "t_begin"), "BEGIN", "t_begin"), db |-> db]
                 [] pc = "t_begin" -> [call |-> [cl EXCEPT !.pc = "t_callback"], db |-> db]
                 [] pc = "t_callback" ->
                        [call |-> Issue([cl EXCEPT !.callback = "returned"], "COMMIT",
                                        "t_commit"),
                         db |-> db]
                 [] pc = "t_commit" -> [call |-> Returned(release(cl)), db |-> db]
                 [] OTHER -> [call |-> Thrown(release(cl), cl.pending), db |-> db]
       IN  /\ call' = [call EXCEPT ![c] = next.call]
           /\ db' = next.db
           /\ users' =
                 IF executes /\ st = "INSERT users"
                 THEN users \cup {[id |-> userSeq, email |-> cl.email]}
                 ELSE users
           /\ userSeq' = IF pc = "sql" /\ st = "INSERT users" THEN userSeq + 1 ELSE userSeq
           /\ settings' =
                 IF executes /\ st = "INSERT user_settings" THEN settings \cup {cl.id}
                 ELSE settings
           /\ stats' =
                 CASE executes /\ st = "INSERT study_stats" -> stats \cup {InsertedStats(cl)}
                   [] executes /\ st = "UPDATE study_stats" ->
                          {IF s.user_id = cl.user THEN UpdatedStats(s, cl) ELSE s : s \in stats}
                   [] OTHER -> stats
    /\ UNCHANGED <<page, req, studyRows, studySeq, noteRows, noteSeq>>

\* The awaited promise rejects (connection refused or lost): query() and
\* connect() release a client they hold and rethrow; transaction() goes to its
\* catch block, or from a failed ROLLBACK to its finally block.
DbReject(c) ==
    /\ call[c].pc \notin {"idle", "done"}
    /\ LET cl == call[c]
           pc == cl.pc
       IN  call' = [call EXCEPT ![c] =
               CASE pc \in {"conn_acquire", "acquire", "t_acquire"} -> Thrown(cl, "env")
                 [] pc \in {"conn_test", "sql"} -> Thrown(release(cl), "env")
                 [] pc = "t_begin" -> Rollback(cl, "begin")
                 [] pc = "t_callback" ->
                        Rollback([cl EXCEPT !.callback = "threw"], "callback")
                 [] pc = "t_commit" -> Rollback(cl, "commit")
                 [] OTHER -> Thrown(release(cl), "rollback")]
    /\ UNCHANGED <<page, server, db, settings, stats>>

\* A deployment with empty tables and a new Database instance.
ServerInit ==
    /\ users = {}
    /\ userSeq = 1
    /\ studyRows = {}
    /\ studySeq = 1
    /\ noteRows = {}
    /\ noteSeq = 1
    /\ req = [q \in Reqs |-> IdleReq]
    /\ db = NoPool
    /\ settings = {}
    /\ stats = {}
    /\ call = [c \in DbCalls |-> IdleCall]

----------------------------------------------------------------------------
\* The View / the user

\* The store whose getAll the invocation's last call read successfully.
Served(tr) ==
    IF tr.calls = <<>> \/ ~tr.calls[Len(tr.calls)].ok THEN "none"
    ELSE IF tr.calls[Len(tr.calls)].api = "Api.sessions.getAll" THEN "remote"
    ELSE IF tr.calls[Len(tr.calls)].api = "DB.getAll" THEN "local"
    ELSE "none"

\* What is remembered of the invocation that returned: a load, a create that
\* succeeded, or anything else.
\* The status this.sessions showed for the id (first match), "none" if absent.
StatusIn(ss, id) == IF FindIndex(ss, id) = 0 THEN "none" ELSE ss[FindIndex(ss, id)].status

\* The invocation was a logged-in startSession on a session shown as planned, and
\* the Remote answered its Api.sessions.start.
StartOfPlanned(tr) ==
    /\ tr.op = "start"
    /\ tr.calls # <<>>
    /\ tr.calls[1].api = "Api.sessions.start"
    /\ tr.calls[1].ok
    /\ StatusIn(tr.before, tr.id) = "planned"

HistOp(tr) ==
    IF tr.op = "load" THEN "load"
    ELSE IF tr.newRemote # NoId \/ tr.newLocal # NoId THEN "create"
    ELSE IF StartOfPlanned(tr) THEN "started"
    ELSE "none"

\* A timer this invocation scheduled has not run its callback yet.
TimerPending(t) == task[t].fired < task[t].timers

\* The callback of the timer startSession scheduled: window.location.hash =
\* '#/focus-mode'. It runs 500 ms after the method returned.
TimerFire(t) ==
    /\ task[t].pc = "done"
    /\ TimerPending(t)
    /\ hash' = FocusHash
    /\ Set(t, [task[t] EXCEPT !.fired = @ + 1])
    /\ UNCHANGED <<database, server, loggedIn, stores, sessions, listening, hist>>

\* The invocation's promise has settled; the View may issue the next one. The user
\* acts again after the navigation an invocation scheduled has happened.
Return(t) ==
    /\ task[t].pc = "done"
    /\ ~TimerPending(t)
    /\ hist' = [op        |-> HistOp(task[t]),
                src       |-> IF task[t].op = "load" THEN Served(task[t]) ELSE "none",
                newRemote |-> task[t].newRemote,
                newLocal  |-> task[t].newLocal,
                id        |-> IF StartOfPlanned(task[t]) THEN task[t].id ELSE NoId]
    /\ listening' = (listening \/ task[t].op = "load")
    /\ Set(t, IdleTask)
    /\ UNCHANGED <<database, server, hash, loggedIn, stores, sessions>>

\* The user signs in on the login view and enters the page again: the page object
\* is constructed anew (this.sessions = [], no listeners yet), both stores persist.
Login ==
    /\ AllIdle
    /\ ~loggedIn
    /\ loggedIn' = TRUE
    /\ sessions' = <<>>
    /\ listening' = FALSE
    /\ hist' = NoHist
    /\ hash' = PageHash
    /\ UNCHANGED <<database, server, stores, task>>

Logout ==
    /\ AllIdle
    /\ loggedIn
    /\ loggedIn' = FALSE
    /\ sessions' = <<>>
    /\ listening' = FALSE
    /\ hist' = NoHist
    /\ hash' = PageHash
    /\ UNCHANGED <<database, server, stores, task>>

\* The user comes back from the focus-mode view: the page object is constructed
\* anew.
Enter ==
    /\ AllIdle
    /\ hash = FocusHash
    /\ hash' = PageHash
    /\ sessions' = <<>>
    /\ listening' = FALSE
    /\ UNCHANGED <<database, server, loggedIn, stores, task, hist>>

\* The page is the view on display.
Shown == hash = PageHash

----------------------------------------------------------------------------

Init ==
    /\ loggedIn \in BOOLEAN
    /\ remote = {}
    /\ nextRemoteId = MaxId
    /\ local = {}
    /\ nextLocalId = MaxId
    /\ sessions = <<>>
    /\ listening = FALSE
    /\ task = [t \in Tasks |-> IdleTask]
    /\ hist = NoHist
    /\ hash = PageHash
    /\ ServerInit

\* One invocation at a time: the user acts again after the previous one settled.
\* afterRender awaits loadSessions before setupEventListeners, so the handlers run
\* only after the page's first load has returned, and only while the page is shown.
Next ==
    \/ Login
    \/ Logout
    \/ Enter
    \/ \E t \in Tasks :
          \/ AllIdle /\ Shown /\ LoadSessions(t)
          \/ AllIdle /\ Shown /\ listening /\ HandleSessionSubmit(t)
          \/ AllIdle /\ Shown /\ listening /\ DeleteSession(t)
          \/ AllIdle /\ Shown /\ listening /\ StartSession(t)
          \/ AllIdle /\ Shown /\ listening /\ CompleteSession(t)
          \/ LoadSessionsResume(t)
          \/ HandleSessionSubmitResume(t)
          \/ DeleteSessionResume(t)
          \/ StartSessionResume(t)
          \/ CompleteSessionResume(t)
          \/ ApiResolve(t)
          \/ ApiReject(t)
          \/ DBResolve(t)
          \/ DBReject(t)
          \/ TimerFire(t)
          \/ Return(t)

Spec == Init /\ [][Next]_vars

\* Both stores are new: their id sequences start at 1, so each can come to hold
\* MaxId sessions.
InitFresh ==
    /\ loggedIn \in BOOLEAN
    /\ remote = {}
    /\ nextRemoteId = 1
    /\ local = {}
    /\ nextLocalId = 1
    /\ sessions = <<>>
    /\ listening = FALSE
    /\ task = [t \in Tasks |-> IdleTask]
    /\ hist = NoHist
    /\ hash = PageHash
    /\ ServerInit

\* The user stays signed in, or signed out, for the whole behaviour.
NextFresh ==
    \/ Enter
    \/ \E t \in Tasks :
          \/ AllIdle /\ Shown /\ LoadSessions(t)
          \/ AllIdle /\ Shown /\ listening /\ HandleSessionSubmit(t)
          \/ AllIdle /\ Shown /\ listening /\ DeleteSession(t)
          \/ AllIdle /\ Shown /\ listening /\ StartSession(t)
          \/ AllIdle /\ Shown /\ listening /\ CompleteSession(t)
          \/ LoadSessionsResume(t)
          \/ HandleSessionSubmitResume(t)
          \/ DeleteSessionResume(t)
          \/ StartSessionResume(t)
          \/ CompleteSessionResume(t)
          \/ ApiResolve(t)
          \/ ApiReject(t)
          \/ DBResolve(t)
          \/ DBReject(t)
          \/ TimerFire(t)
          \/ Return(t)

SpecFresh == InitFresh /\ [][NextFresh]_vars

\* The page some time after it was opened: each store holds the session created
\* first, still planned; the page's first load has returned and shows the
\* authoritative one.
InitPair ==
    /\ loggedIn \in BOOLEAN
    /\ remote = createSession({}, 1, NoSession)
    /\ nextRemoteId = MaxId
    /\ local = DBSet({}, 1, NoSession)
    /\ nextLocalId = MaxId
    /\ sessions = IF loggedIn THEN getSessionsByUserId(remote) ELSE DBGetAll(local)
    /\ listening = TRUE
    /\ task = [t \in PairTasks |-> IdleTask]
    /\ hist = NoHist
    /\ hash = PageHash
    /\ ServerInit

\* "t2" is the invocation issued while "t1" is in flight.
Overlapping(t) == t = "t1" \/ task["t1"].pc # "idle"

\* Handlers are not serialised: an event fires whenever the page is shown, also
\* while an earlier invocation is suspended. Each of the two invocations runs to
\* its end.
NextPair ==
    \/ \E t \in PairTasks :
          \/ Overlapping(t) /\ Shown /\ LoadSessions(t)
          \/ Overlapping(t) /\ Shown /\ listening /\ HandleSessionSubmit(t)
          \/ Overlapping(t) /\ Shown /\ listening /\ DeleteSession(t)
          \/ Overlapping(t) /\ Shown /\ listening /\ StartSession(t)
          \/ Overlapping(t) /\ Shown /\ listening /\ CompleteSession(t)
          \/ LoadSessionsResume(t)
          \/ HandleSessionSubmitResume(t)
          \/ DeleteSessionResume(t)
          \/ StartSessionResume(t)
          \/ CompleteSessionResume(t)
          \/ ApiResolve(t)
          \/ ApiReject(t)
          \/ DBResolve(t)
          \/ DBReject(t)
          \/ TimerFire(t)

SpecPair == InitPair /\ [][NextPair]_vars

\* The HTTP handler on its own: no page is open.
InitHttp ==
    /\ loggedIn = FALSE
    /\ remote = {}
    /\ nextRemoteId = MaxId
    /\ local = {}
    /\ nextLocalId = MaxId
    /\ sessions = <<>>
    /\ listening = FALSE
    /\ task = [t \in Tasks |-> IdleTask]
    /\ hist = NoHist
    /\ hash = PageHash
    /\ ServerInit

\* One request at a time.
NextHttp ==
    \E q \in Reqs :
        \/ Handle(q)
        \/ Query(q)
        \/ QueryFail(q)
        \/ Close(q)

SpecHttp == InitHttp /\ [][NextHttp]_vars

\* Requests in flight when two clients register at once.
PairReqs == {"q1", "q2"}

\* The HTTP handler with two requests in flight over empty tables.
InitRegister ==
    /\ loggedIn = FALSE
    /\ remote = {}
    /\ nextRemoteId = MaxId
    /\ local = {}
    /\ nextLocalId = MaxId
    /\ sessions = <<>>
    /\ listening = FALSE
    /\ task = [t \in Tasks |-> IdleTask]
    /\ hist = NoHist
    /\ hash = PageHash
    /\ users = {}
    /\ userSeq = 1
    /\ studyRows = {}
    /\ studySeq = 1
    /\ noteRows = {}
    /\ noteSeq = 1
    /\ req = [q \in PairReqs |-> IdleReq]
    /\ db = NoPool
    /\ settings = {}
    /\ stats = {}
    /\ call = [c \in DbCalls |-> IdleCall]

\* Registrations only, their statements interleaved in any order.
NextRegister ==
    \E q \in PairReqs :
        \/ Handle(q) /\ req'[q].route = "POST /auth/register"
        \/ Query(q)
        \/ QueryFail(q)
        \/ Close(q)

SpecRegister == InitRegister /\ [][NextRegister]_vars

\* The Database class on its own, after setup-database.js and one registration:
\* the user a@x.id with its settings row. The environment may lack a variable.
InitDb ==
    /\ loggedIn = FALSE
    /\ remote = {}
    /\ nextRemoteId = MaxId
    /\ local = {}
    /\ nextLocalId = MaxId
    /\ sessions = <<>>
    /\ listening = FALSE
    /\ task = [t \in Tasks |-> IdleTask]
    /\ hist = NoHist
    /\ hash = PageHash
    /\ users = {[id |-> 1, email |-> "a@x.id"]}
    /\ userSeq = 2
    /\ studyRows = {}
    /\ studySeq = 1
    /\ noteRows = {}
    /\ noteSeq = 1
    /\ req = [q \in Reqs |-> IdleReq]
    /\ db \in {[NoPool EXCEPT !.missingVars = m] : m \in BOOLEAN}
    /\ settings = {1}
    /\ stats = {}
    /\ call = [c \in DbCalls |-> IdleCall]

\* Two calls of Database methods, in any interleaving of their awaits.
NextDb ==
    \E c \in DbCalls :
        \/ DbCall(c)
        \/ DbResolve(c)
        \/ DbReject(c)

SpecDb == InitDb /\ [][NextDb]_vars

----------------------------------------------------------------------------
\* Observations on an invocation

Done(t) == task[t].pc = "done"

Calls(t) == task[t].calls

HasToast(t, type) == \E i \in 1..Len(task[t].toasts) : task[t].toasts[i].type = type

LastCall(t) == Calls(t)[Len(Calls(t))]

\* this.sessions holds exactly the given records, each once.
HoldsExactly(ss, recs) == Range(ss) = recs /\ Len(ss) = Cardinality(recs)

FailedCall(t, apis) ==
    \E i \in 1..Len(Calls(t)) : Calls(t)[i].api \in apis /\ ~Calls(t)[i].ok

CountCalls(t, apis) == Cardinality({i \in 1..Len(Calls(t)) : Calls(t)[i].api \in apis})

Mutations == {"submit", "delete", "start", "complete"}

----------------------------------------------------------------------------
C2_ReloadAfterEveryMutation ==
    \A t \in Tasks :
        (Done(t) /\ task[t].op \in Mutations /\ HasToast(t, "success")) =>
            /\ Len(Calls(t)) >= 2
            /\ LastCall(t).ok
            /\ LET write == Calls(t)[Len(Calls(t)) - 1]
               IN  IF write.api \in RemoteWrites
                   THEN /\ LastCall(t).api = "Api.sessions.getAll"
                        /\ sessions = getSessionsByUserId(remote)
                   ELSE /\ LastCall(t).api = "DB.getAll"
                        /\ sessions = DBGetAll(local)

\* C3: when the user is logged in and a Remote write fails, the operation emits an
\* error notification and no success notification, invokes that Remote write
\* exactly once, and never invokes DB.set or DB.delete.
C3_FailedRemoteWrite ==
    \A t \in Tasks :
        FailedCall(t, RemoteWrites) =>
            /\ loggedIn
            /\ ~HasToast(t, "success")
            /\ CountCalls(t, RemoteWrites) = 1
            /\ CountCalls(t, LocalWrites) = 0
            /\ Done(t) => HasToast(t, "error")

\* Api.sessions.start failed and startSession has finished.
C3_Witness ==
    \E t \in Tasks :
        /\ Done(t) /\ task[t].op = "start"
        /\ FailedCall(t, {"Api.sessions.start"})
        /\ HasToast(t, "error")

\* C4 (as stated): whenever a Remote Client call fails inside a controller
\* operation, the failure is caught, this.sessions is set from DB.getAll('sessions')
\* (provided that read succeeds), and the operation's promise resolves.
C4_RemoteFailureReadsLocal ==
    \A t \in Tasks :
        (Done(t) /\ FailedCall(t, RemoteCalls)) =>
            /\ task[t].outcome = "resolved"
            /\ CountCalls(t, {"DB.getAll"}) >= 1
            /\ LastCall(t).ok => sessions = DBGetAll(local)

\* The call a finished operation made right after its i-th call.
NextApi(t, i) == IF i < Len(Calls(t)) THEN Calls(t)[i + 1].api ELSE "none"

\* The i-th call is the Api.sessions.getAll of loadSessions (not the reload that
\* follows a Remote write that succeeded).
IsLoadGetAll(t, i) ==
    /\ Calls(t)[i].api = "Api.sessions.getAll"
    /\ i = 1 \/ ~Calls(t)[i - 1].ok

\* C4 (amended): no controller operation rejects because of a Remote failure.
\* When the Api.sessions.getAll of loadSessions fails, the failure is caught and
\* DB.getAll('sessions') is read next, and this.sessions is set from it if it
\* succeeds. When a Remote write, or the reload after it, fails, the operation
\* runs loadSessions, which asks Api.sessions.getAll again first: this.sessions is
\* then set from the Remote if that call succeeds and from DB.getAll only if it
\* fails too.
C4_RemoteFailureCaught ==
    \A t \in Tasks :
        Done(t) =>
            /\ task[t].outcome = "resolved"
            /\ \A i \in 1..Len(Calls(t)) :
                  (Calls(t)[i].api \in RemoteCalls /\ ~Calls(t)[i].ok) =>
                      /\ NextApi(t, i) = IF IsLoadGetAll(t, i) THEN "DB.getAll"
                                         ELSE "Api.sessions.getAll"
                      /\ Served(task[t]) = "local" => sessions = DBGetAll(local)
                      /\ Served(task[t]) = "remote" => sessions = getSessionsByUserId(remote)
                      /\ Served(task[t]) = "none" => HasToast(t, "error")

\* Api.sessions.delete failed, the loadSessions of the catch block got the Remote
\* collection, and the Local Store was never read.
C4_Witness ==
    \E t \in Tasks :
        /\ Done(t) /\ task[t].op = "delete"
        /\ FailedCall(t, {"Api.sessions.delete"})
        /\ Served(task[t]) = "remote"
        /\ CountCalls(t, {"DB.getAll"}) = 0
        /\ remote # {} /\ local # remote

\* C5: when loadSessions runs while logged in and Api.sessions.getAll throws, the
\* View receives the Local Store collection and an error notification.
C5_FallbackNotifies ==
    \A t \in Tasks :
        (Done(t) /\ task[t].op = "load" /\ FailedCall(t, {"Api.sessions.getAll"})) =>
            /\ HasToast(t, "error")
            /\ LastCall(t).ok => sessions = DBGetAll(local)

\* C6: whenever a Local Store call (DB.getAll, DB.set, DB.delete) fails during a
\* controller operation, the operation shows an error, reports no success, and
\* does not retry the failed call.
C6_LocalFailureSurfaced ==
    \A t \in Tasks :
        \A i \in 1..Len(Calls(t)) :
            (Calls(t)[i].api \in {"DB.getAll", "DB.set", "DB.delete"} /\ ~Calls(t)[i].ok) =>
                /\ ~HasToast(t, "success")
                /\ Done(t) => HasToast(t, "error")
                /\ NextApi(t, i) # Calls(t)[i].api

\* planned -> inprogress and inprogress -> completed are the only status changes.
Forward(old, new) ==
    \/ old = "planned" /\ new = "inprogress"
    \/ old = "inprogress" /\ new = "completed"

\* C7: a stored session's status only ever changes planned -> inprogress or
\* inprogress -> completed, whatever sequence of create, edit, start and complete
\* operations runs.
C7_StatusOnlyForward ==
    [][/\ \A r \in remote, q \in remote' :
             (r.id = q.id /\ r.status # q.status) => Forward(r.status, q.status)
       /\ \A r \in local, q \in local' :
             (r.id = q.id /\ r.status # q.status) => Forward(r.status, q.status)]_vars

\* How often the collection holds an entity with this id.
Occurrences(ss, id) == Cardinality({i \in 1..Len(ss) : ss[i].id = id})

\* A loadSessions has finished right after a create, by the same user, that the
\* Remote accepted.
LoadedAfterRemoteCreate(t) ==
    /\ Done(t) /\ task[t].op = "load"
    /\ hist.op = "create" /\ hist.newRemote # NoId

LoadedAfterLocalCreate(t) ==
    /\ Done(t) /\ task[t].op = "load"
    /\ hist.op = "create" /\ hist.newLocal # NoId
    /\ Served(task[t]) # "none"

\* DB.set has just stored the entity of a logged-out create.
LocalCreateStored(t) ==
    /\ task[t].pc = "S_set" /\ task[t].id = NoId
    /\ task[t].resp.st = "none" /\ task'[t].resp.st = "ok"

LoadedTwice(t) == Done(t) /\ task[t].op = "load" /\ hist.op = "load"

\* C10 (as stated): two loadSessions in succession with no mutation in between
\* leave equal collections in this.sessions, whatever the authentication state
\* and the outcome of the Remote calls.
C10_LoadTwiceEqual ==
    \A t \in Tasks : LoadedTwice(t) => sessions = task[t].before

\* C10 (amended): two loadSessions in succession with no mutation in between
\* leave equal collections in this.sessions when the second load reads the store
\* the first one read (both Api.sessions.getAll calls succeed, or both loads end
\* on DB.getAll) or reads nothing; when one Remote getAll fails and the other
\* succeeds, one collection is the Remote's and the other the Local Store's.
C10_LoadTwiceSameSource ==
    \A t \in Tasks :
        (LoadedTwice(t) /\ Served(task[t]) \in {hist.src, "none"}) =>
            sessions = task[t].before

\* Two loads, the second through the fallback like the first, over a Local Store
\* that is not empty.
C10_Witness ==
    \E t \in Tasks :
        /\ LoadedTwice(t) /\ loggedIn
        /\ hist.src = "local" /\ Served(task[t]) = "local"
        /\ sessions # <<>> /\ sessions = task[t].before

\* deleteSession has finished after asking the Source to delete an id it does not
\* hold.
DeletedMissing(t) ==
    /\ Done(t) /\ task[t].op = "delete"
    /\ Len(Calls(t)) >= 1
    /\ Calls(t)[1].api \in {"Api.sessions.delete", "DB.delete"}
    /\ ~Calls(t)[1].hit

\* C11: deleteSession called with an id that does not exist in the authoritative
\* Source reports failure rather than success, and leaves this.sessions holding
\* exactly the entities it held before.
C11_DeleteMissingFails ==
    \A t \in Tasks :
        DeletedMissing(t) =>
            /\ HasToast(t, "error")
            /\ ~HasToast(t, "success")
            /\ Range(sessions) = Range(task[t].before)

\* A logged-in startSession on a session shown as planned has finished, and the
\* Remote had answered its Api.sessions.start.
StartedPlanned(t) == Done(t) /\ StartOfPlanned(task[t])

\* A loadSessions has finished right after such a startSession.
LoadedAfterStart(t) == Done(t) /\ task[t].op = "load" /\ hist.op = "started"

\* Every session the collection showed before, other than id, is shown with the
\* status it had.
OthersUnchanged(before, after, id) ==
    \A j \in 1..Len(before) :
        before[j].id # id => StatusIn(after, before[j].id) = before[j].status

\* C12 (as stated): a logged-in startSession(id) on a planned session invokes
\* Api.sessions.start exactly once with that id, and (the Remote having answered
\* the call) after the operation and after any subsequent loadSessions the
\* session with that id has status 'inprogress' while every other session's
\* status is unchanged.
C12_StartShowsInProgress ==
    \A t \in Tasks :
        /\ StartedPlanned(t) =>
              /\ CountCalls(t, {"Api.sessions.start"}) = 1
              /\ Calls(t)[1].id = task[t].id
              /\ StatusIn(sessions, task[t].id) = "inprogress"
              /\ OthersUnchanged(task[t].before, sessions, task[t].id)
        /\ LoadedAfterStart(t) => StatusIn(sessions, hist.id) = "inprogress"

\* Api.sessions.start has just been answered by the Remote.
StartAnswered(t) ==
    /\ task[t].pc = "T_start"
    /\ task[t].resp.st = "none" /\ task'[t].resp.st = "ok"

\* The Remote's row with this id, if it holds one, has status 'inprogress'.
InProgressInRemote(id) == \A r \in remote : r.id = id => r.status = "inprogress"

\* C12 (amended): a logged-in startSession(id) on a planned session invokes
\* Api.sessions.start exactly once with that id. When the Remote answers the call,
\* the row with that id, if the Remote holds one, gets status 'inprogress' and
\* every other row is unchanged. After the operation, and after a subsequent
\* loadSessions, this.sessions shows the Remote's rows (that session as
\* 'inprogress', every other one with the status the Remote holds) provided the
\* last Api.sessions.getAll of the operation, respectively of the load, succeeded;
\* when it failed, this.sessions is the Local Store's collection or is left as it
\* was, and need not show the session as 'inprogress' or at all.
C12_StartSetsInProgressInRemote ==
    /\ [][\A t \in Tasks :
             StartAnswered(t) =>
                 /\ \A r \in remote : r.id # task[t].id => r \in remote'
                 /\ \A q \in remote' : q.id # task[t].id => q \in remote
                 /\ \A q \in remote' : q.id = task[t].id => q.status = "inprogress"
                 /\ {q.id : q \in remote'} = {r.id : r \in remote}]_vars
    /\ [](\A t \in Tasks :
             /\ StartedPlanned(t) =>
                   /\ CountCalls(t, {"Api.sessions.start"}) = 1
                   /\ Calls(t)[1].id = task[t].id
                   /\ InProgressInRemote(task[t].id)
                   /\ Served(task[t]) = "remote" => sessions = getSessionsByUserId(remote)
             /\ LoadedAfterStart(t) =>
                   /\ InProgressInRemote(hist.id)
                   /\ Served(task[t]) = "remote" => sessions = getSessionsByUserId(remote))

\* The load after a start the Remote accepted shows two sessions: the started one
\* as 'inprogress', the other one still 'planned'.
C12_Witness ==
    \E t \in Tasks :
        /\ LoadedAfterStart(t) /\ Served(task[t]) = "remote"
        /\ Len(sessions) = 2
        /\ StatusIn(sessions, hist.id) = "inprogress"
        /\ \E j \in 1..2 : sessions[j].id # hist.id /\ sessions[j].status = "planned"

\* The getAll of a reload (of loadSessions, or after a Remote write) has resolved
\* and the invocation's continuation runs.
ReloadResolves(t) ==
    /\ task[t].pc \in RemoteReadPcs \cup LocalReadPcs
    /\ task[t].resp.st = "ok"
    /\ task'[t].pc = "done"

\* A step of the Local Store branch of a mutation, which patches this.sessions in
\* place and reloads nothing.
LocalPatchStep(t) ==
    \/ task[t].pc = "idle" /\ task'[t].pc \in LocalWritePcs
    \/ task[t].pc \in LocalWritePcs /\ task[t].resp.st = "ok" /\ task'[t].pc = "done"

\* C13: with two controller operations in flight at once, each reload that
\* resolves sets this.sessions to the collection it delivers, and nothing but a
\* resolving reload (or the in-place patch of a Local Store mutation) changes
\* this.sessions: after both operations have resolved, this.sessions is what the
\* reload that resolved last delivered, whichever operation was issued first.
C13_LastResolvedReloadWins ==
    [][/\ \A t \in DOMAIN task : ReloadResolves(t) => sessions' = task[t].resp.rows
       /\ sessions' # sessions =>
             \E t \in DOMAIN task : ReloadResolves(t) \/ LocalPatchStep(t)]_vars

\* Logged in, loadSessions was issued first and deleteSession second; the
\* delete's reload resolved first and the load's stale response last: both have
\* finished and this.sessions still shows the session the Remote no longer holds.
C13_Witness ==
    /\ loggedIn
    /\ DOMAIN task = PairTasks
    /\ Done("t1") /\ task["t1"].op = "load" /\ Served(task["t1"]) = "remote"
    /\ Done("t2") /\ task["t2"].op = "delete" /\ Served(task["t2"]) = "remote"
    /\ HasToast("t2", "success")
    /\ remote = {}
    /\ sessions # <<>>

\* The collection is in creation order, newest first. Both stores hand out
\* increasing ids, so a session created later has the larger id.
NewestFirst(ss) == \A i, j \in 1..Len(ss) : i < j => ss[i].id > ss[j].id

\* C14: after every completed controller operation, in Remote and in Local mode,
\* this.sessions is ordered by creation time descending: a newly created session
\* comes before all older ones.
C14_NewestFirst ==
    \A t \in Tasks : Done(t) => NewestFirst(sessions)

LocalCalls == {"DB.getAll", "DB.set", "DB.delete"}

\* C17: a controller operation that runs while logged in and in which every
\* Remote call succeeds never reads or writes the Local Store: it makes no
\* DB.getAll, DB.set or DB.delete call, and every call it makes goes to the Remote.
C17_LoggedInTouchesRemoteOnly ==
    \A t \in Tasks :
        (task[t].op # "idle" /\ loggedIn /\ ~FailedCall(t, RemoteCalls)) =>
            /\ CountCalls(t, LocalCalls) = 0
            /\ task[t].pc \notin LocalReadPcs \cup LocalWritePcs
            /\ \A i \in 1..Len(Calls(t)) : Calls(t)[i].api \in RemoteCalls

\* Logged in, completeSession has finished with both its Remote calls answered,
\* over a Local Store that holds a session.
C17_Witness ==
    \E t \in Tasks :
        /\ Done(t) /\ loggedIn /\ task[t].op = "complete"
        /\ Len(Calls(t)) = 2 /\ ~FailedCall(t, RemoteCalls)
        /\ HasToast(t, "success")
        /\ local # {}

Writes == RemoteWrites \cup LocalWrites

\* C18: loadSessions never invokes a write on either Source: an invocation of
\* loadSessions makes no write call, and once a call of a mutation has failed
\* (its catch block runs loadSessions) the mutation makes no further write call;
\* while a load runs neither store changes, and a Local Store entity stays in the
\* Local Store until a DB.delete for its id.
C18_LoadNeverWrites ==
    /\ [](\A t \in Tasks :
             /\ task[t].op = "load" => CountCalls(t, Writes) = 0
             /\ \A i, j \in 1..Len(Calls(t)) :
                   (i < j /\ ~Calls(t)[i].ok) => Calls(t)[j].api \notin Writes)
    /\ [][/\ \A t \in Tasks :
               (task[t].op = "load" \/ FailedCall(t, RemoteCalls \cup LocalCalls)) =>
                   remote' = remote /\ local' = local
          /\ \A r \in local :
               \/ \E q \in local' : q.id = r.id
               \/ \E t \in Tasks : task[t].pc = "D_dbdelete" /\ task[t].id = r.id]_vars

\* Logged out, DB.set of an edit failed, the loadSessions of the catch block read
\* the Local Store, which still holds the entity.
C18_Witness ==
    \E t \in Tasks :
        /\ Done(t) /\ ~loggedIn /\ task[t].op = "submit"
        /\ FailedCall(t, {"DB.set"})
        /\ Served(task[t]) = "local"
        /\ \E r \in local : r.id = task[t].id
        /\ sessions = DBGetAll(local)

\* The timer callback of invocation t runs in this step.
TimerFires(t) == task'[t].fired # task[t].fired

\* C19: the delayed navigation to '#/focus-mode' is scheduled exactly once by a
\* startSession that succeeded (it showed its success toast) and never by one that
\* failed or found no session; no other operation schedules a timer; and the
\* timer callback sets window.location.hash and changes neither this.sessions nor
\* either store.
C19_NavigationOncePerStart ==
    /\ [](\A t \in Tasks :
             /\ task[t].timers =
                   IF task[t].op = "start" /\ HasToast(t, "success") THEN 1 ELSE 0
             /\ task[t].fired <= task[t].timers)
    /\ [][/\ \A t \in Tasks :
               TimerFires(t) =>
                   /\ hash' = FocusHash
                   /\ sessions' = sessions
                   /\ stores' = stores
          /\ (hash' = FocusHash /\ hash # FocusHash) => \E t \in Tasks : TimerFires(t)]_vars

\* startSession succeeded, its timer has run: the hash is '#/focus-mode' and
\* this.sessions still shows the started session.
C19_Witness ==
    \E t \in Tasks :
        /\ Done(t) /\ task[t].op = "start" /\ HasToast(t, "success")
        /\ task[t].timers = 1 /\ task[t].fired = 1
        /\ hash = FocusHash
        /\ StatusIn(sessions, task[t].id) = "inprogress"

\* A mutation has finished through its catch block: one of its calls failed.
FailedMutation(t) ==
    /\ Done(t) /\ task[t].op \in Mutations
    /\ FailedCall(t, RemoteCalls \cup LocalCalls)

\* C20: after a mutation fails, the reload of its catch block restores correct
\* state: when the operation finishes, every entity in this.sessions has the field
\* values (the status) of the entity with that id in the authoritative store, also
\* when the failed step was a Local Store write made after the session object had
\* been modified in memory.
C20_FailedMutationRestored ==
    \A t \in Tasks :
        FailedMutation(t) =>
            \A i \in 1..Len(sessions) :
                sessions[i] \in (IF loggedIn THEN remote ELSE local)

ErrorStatuses == {400, 401, 403, 404, 409, 500}

\* C15: every error response of the HTTP handler (status 400, 401, 403, 404, 409
\* or 500, on every route) has a JSON body with both an error and a message
\* field, and the handler sends exactly one response per request.
C15_ErrorBodyAndOneResponse ==
    \A q \in Reqs :
        /\ \A i \in 1..Len(req[q].sent) :
              req[q].sent[i].status \in ErrorStatuses =>
                  {"error", "message"} \subseteq req[q].sent[i].keys
        /\ Len(req[q].sent) <= 1
        /\ req[q].pc = "done" => Len(req[q].sent) = 1

\* The request on a protected route has been answered.
Answered(q) == req[q].pc = "done" /\ req[q].route \in Protected

\* C16: every protected route (GET/POST /sessions, GET/POST /notes, GET
\* /stats/today) answers 401 when no bearer token is supplied and 403 when the
\* token is invalid or expired, in both cases without a database query and
\* without changing a row; on success the rows returned are exactly the rows of
\* the user id the token carries, and a row inserted has that user id.
C16_ProtectedRoutes ==
    /\ [](\A q \in Reqs :
             Answered(q) =>
                 /\ req[q].token = NoToken =>
                       req[q].sent[1].status = 401 /\ req[q].queries = 0
                 /\ req[q].token = BadToken =>
                       req[q].sent[1].status = 403 /\ req[q].queries = 0
                 /\ req[q].sent[1].status \in {200, 201} =>
                       /\ req[q].token \notin {NoToken, BadToken}
                       /\ \A r \in req[q].sent[1].rows : r.user_id = req[q].token
                 /\ (req[q].sent[1].status = 200 /\ req[q].route = "GET /sessions") =>
                       req[q].sent[1].rows = {r \in studyRows : r.user_id = req[q].token}
                 /\ (req[q].sent[1].status = 200 /\ req[q].route = "GET /notes") =>
                       req[q].sent[1].rows = {r \in noteRows : r.user_id = req[q].token})
    /\ [][/\ \A q \in Reqs :
               (req'[q].pc # "idle" /\ req'[q].route \in Protected
                   /\ req'[q].token \in {NoToken, BadToken}) => tables' = tables
          /\ \A r \in (studyRows' \ studyRows) \cup (noteRows' \ noteRows) :
               \E q \in Reqs :
                   /\ req[q].route \in {"POST /sessions", "POST /notes"}
                   /\ req[q].token \notin {NoToken, BadToken}
                   /\ r.user_id = req[q].token
                   /\ req'[q].sent[1].status = 201 /\ req'[q].sent[1].id = r.id]_vars

\* GET /sessions with the token of one user returns that user's row while the
\* table also holds a row of another user.
C16_Witness ==
    \E q \in Reqs :
        /\ Answered(q) /\ req[q].route = "GET /sessions"
        /\ req[q].sent[1].status = 200
        /\ req[q].sent[1].rows # {}
        /\ \E r \in studyRows : r.user_id # req[q].token

----------------------------------------------------------------------------
\* users.email UNIQUE, seen from outside: no two rows with one email.
OneUserPerEmail == \A u \in users, v \in users : u.email = v.email => u = v

\* A statement of a registration executes while users holds a row with the
\* (lower-cased, trimmed) email of the request.
RegisterMeetsExisting(q) ==
    /\ Query(q)
    /\ req[q].pc \in {"R_select", "R_insert"}
    /\ UsersByEmail(req[q].body.email) # {}

\* C21: a POST /auth/register for an email already present in users is answered
\* with status 409 and inserts no row, so users never holds two rows with one
\* email; also when two registrations of one email are processed concurrently.
C21_RegisterExistingAnswered409 ==
    /\ []OneUserPerEmail
    /\ [][\A q \in DOMAIN req :
              RegisterMeetsExisting(q) =>
                  /\ users' = users
                  /\ req'[q].pc = "done"
                  /\ req'[q].sent = <<Response(409, {"error", "message"}, NoRows, 0)>>]_vars

----------------------------------------------------------------------------
\* A mutation that ran past its confirmation step: deleteSession returns at once
\* when confirm() is declined, and awaits a store call otherwise.
PastConfirmation(t) ==
    /\ task[t].op \in Mutations
    /\ task[t].op = "delete" => Calls(t) # <<>>

\* C22: handleSessionSubmit, deleteSession, startSession and completeSession,
\* once past the confirmation step, have dispatched at least one show-toast
\* event when they finish; no invocation dispatches both a success and an error
\* toast; a success toast is dispatched only if every store call of the
\* invocation succeeded.
C22_ToastPerMutation ==
    \A t \in DOMAIN task :
        /\ (Done(t) /\ PastConfirmation(t)) => task[t].toasts # <<>>
        /\ task[t].op \in Mutations =>
               /\ ~(HasToast(t, "success") /\ HasToast(t, "error"))
               /\ HasToast(t, "success") =>
                      \A i \in 1..Len(Calls(t)) : Calls(t)[i].ok

\* A confirmed deleteSession whose store call failed, and whose reload failed
\* too, has finished with error toasts only.
C22_Witness ==
    \E t \in DOMAIN task :
        /\ Done(t) /\ task[t].op = "delete"
        /\ FailedCall(t, RemoteWrites \cup LocalWrites)
        /\ Len(task[t].toasts) = 2
        /\ ~HasToast(t, "success")

----------------------------------------------------------------------------
\* A Remote write of the invocation took effect: the call succeeded and hit a row
\* (a create always inserts one).
RemoteWriteTookEffect(t) ==
    \E i \in 1..Len(Calls(t)) :
        Calls(t)[i].api \in RemoteWrites /\ Calls(t)[i].ok /\ Calls(t)[i].hit

\* C23: a mutation that dispatches an error toast while the user is logged in
\* has not changed the Remote: no invocation has its Remote write take effect and
\* is then reported as failed because the Api.sessions.getAll that follows threw.
C23_ErrorMeansRemoteUnchanged ==
    \A t \in DOMAIN task :
        (loggedIn /\ task[t].op \in Mutations /\ HasToast(t, "error")) =>
            ~RemoteWriteTookEffect(t)

----------------------------------------------------------------------------
\* The invocation acts on a session the View shows, and what the View shows was
\* loaded from the Local Store by the fallback of the last loadSessions.
ShownFromLocalFallback(t) ==
    /\ loggedIn
    /\ hist.op = "load" /\ hist.src = "local"
    /\ FindIndex(task[t].before, task[t].id) # 0

\* The invocation has sent its id to the Remote in update, delete, start or
\* complete.
SentToRemote(t) ==
    \/ task[t].pc \in {"D_delete", "T_start", "C_complete"}
    \/ \E i \in 1..Len(Calls(t)) :
           Calls(t)[i].api \in RemoteWrites /\ Calls(t)[i].id = task[t].id

\* C25: while the user is logged in, every id passed to Api.sessions.update,
\* delete, start or complete is the id of an entity Api.sessions.getAll returned:
\* an id loaded from the Local Store through the fallback is never sent to the
\* Remote.
C25_LocalIdsStayLocal ==
    \A t \in DOMAIN task :
        (task[t].op \in {"delete", "start", "complete"} /\ ShownFromLocalFallback(t)) =>
            ~SentToRemote(t)

----------------------------------------------------------------------------
\* startSession(id) or completeSession(id) was called with an id that
\* this.sessions did not hold.
TransitionOfMissing(t) ==
    /\ task[t].op \in {"start", "complete"}
    /\ FindIndex(task[t].before, task[t].id) = 0

\* C26: startSession(id) and completeSession(id) called with an id that is not
\* in this.sessions dispatch the error toast 'Sesi tidak ditemukan', call neither
\* the Remote Client nor the Local Store, schedule no navigation and leave
\* this.sessions unchanged.
C26_MissingIdReported ==
    \A t \in DOMAIN task :
        TransitionOfMissing(t) =>
            /\ Done(t)
            /\ task[t].toasts = <<Toast("error", "Sesi tidak ditemukan")>>
            /\ Calls(t) = <<>>
            /\ task[t].timers = 0
            /\ sessions = task[t].before

\* completeSession was called for an id missing from a list that shows another
\* session.
C26_Witness ==
    \E t \in DOMAIN task :
        /\ TransitionOfMissing(t)
        /\ Done(t) /\ task[t].op = "complete"
        /\ task[t].before # <<>>

----------------------------------------------------------------------------
\* C24: in unauthenticated mode, under every interleaving of controller
\* operations (a create awaiting DB.set while another operation reloads through
\* DB.getAll), this.sessions never holds two entries with one id.
C24_NoDuplicateIds ==
    ~loggedIn => \A id \in Ids : Occurrences(sessions, id) <= 1

----------------------------------------------------------------------------
\* Observations of the Database class

\* The updateStudyStats calls made for the user today.
StatsCalls(userId) ==
    {c \in DOMAIN call : call[c].op = "updateStudyStats" /\ call[c].user = userId}

RECURSIVE SumOfMinutes(_)
SumOfMinutes(cs) ==
    IF cs = {} THEN 0
    ELSE LET c == CHOOSE x \in cs : TRUE
         IN  call[c].minutes + SumOfMinutes(cs \ {c})

\* The row the calls should have produced together.
ExpectedStats(userId) ==
    [user_id            |-> userId,
     total_sessions     |-> Cardinality(StatsCalls(userId)),
     total_minutes      |-> SumOfMinutes(StatsCalls(userId)),
     completed_sessions |-> Cardinality({c \in StatsCalls(userId) : call[c].completed})]

\* No call is suspended at an await.
Quiescent == \A c \in DOMAIN call : call[c].pc \in {"idle", "done"}

\* The connection failed under some call (an environment failure, not an error
\* of the method).
ConnectionFailed == \E c \in DOMAIN call : call[c].error \in {"env", "nopool"}

\* C27: for any number of updateStudyStats(userId, minutes, completed) calls for
\* one user on one day, run one after the other or concurrently, every call
\* completes without error (the connection permitting), and afterwards the single
\* study_stats row of that user and date has total_sessions equal to the number
\* of calls, total_minutes equal to the sum of their minutes and
\* completed_sessions equal to the number of calls with sessionCompleted true.
C27_StatsCountEveryCall ==
    \A userId \in 1..MaxUsers :
        (Quiescent /\ ~ConnectionFailed /\ StatsCalls(userId) # {}) =>
            /\ \A c \in StatsCalls(userId) : call[c].pc = "done" /\ call[c].error = ""
            /\ StatsOf(userId) = {ExpectedStats(userId)}

----------------------------------------------------------------------------
\* The statement was issued on the transaction's client.
Issued(c, statement) == \E i \in 1..Len(call[c].log) : call[c].log[i] = statement

TransactionDone(c) == call[c].op = "transaction" /\ call[c].pc = "done"

\* C28 (as stated): transaction(callback) issues BEGIN first, then exactly one of
\* COMMIT or ROLLBACK (COMMIT only if the callback returned, ROLLBACK only if it
\* threw), releases the client exactly once in every outcome, and rethrows the
\* callback's own error when the callback fails.
C28_TransactionProtocol ==
    \A c \in DOMAIN call :
        call[c].op = "transaction" =>
            /\ call[c].log # <<>> => call[c].log[1] = "BEGIN"
            /\ Issued(c, "COMMIT") => call[c].callback = "returned"
            /\ Issued(c, "ROLLBACK") => call[c].callback = "threw"
            /\ (TransactionDone(c) /\ call[c].acquired > 0) =>
                   /\ Len(call[c].log) = 2
                   /\ call[c].released = 1
                   /\ call[c].callback = "threw" => call[c].error = "callback"

\* C28 (amended): on the client it acquired, transaction(callback) issues BEGIN
\* first, COMMIT only after the callback returned, and ROLLBACK exactly when
\* BEGIN, the callback or COMMIT threw, so a failed COMMIT is followed by
\* ROLLBACK and a failed BEGIN is rolled back without the callback having run;
\* the client is released exactly once; the call resolves only after COMMIT
\* succeeded and otherwise rejects with the error that sent it to the catch
\* block, unless ROLLBACK itself threw, whose error then replaces it. When
\* this.pool is null or pool.connect() rejects no statement is issued and no
\* client is released.
C28_TransactionOutcomes ==
    \A c \in DOMAIN call :
        call[c].op = "transaction" =>
            /\ call[c].log # <<>> => call[c].log[1] = "BEGIN"
            /\ Issued(c, "COMMIT") => call[c].callback = "returned"
            /\ call[c].callback = "threw" => Issued(c, "ROLLBACK") /\ ~Issued(c, "COMMIT")
            /\ Issued(c, "ROLLBACK") <=> call[c].pending \in {"begin", "callback", "commit"}
            /\ call[c].released <= call[c].acquired /\ call[c].acquired <= 1
            /\ TransactionDone(c) =>
                   /\ call[c].released = call[c].acquired
                   /\ call[c].acquired = 0 =>
                          call[c].log = <<>> /\ call[c].error \in {"env", "nopool"}
                   /\ call[c].acquired = 1 =>
                          \/ call[c].log = <<"BEGIN", "COMMIT">> /\ call[c].error = ""
                          \/ /\ call[c].log = <<"BEGIN", "ROLLBACK">>
                             /\ call[c].pending \in {"begin", "callback"}
                             /\ call[c].error \in {call[c].pending, "rollback"}
                          \/ /\ call[c].log = <<"BEGIN", "COMMIT", "ROLLBACK">>
                             /\ call[c].pending = "commit"
                             /\ call[c].error \in {"commit", "rollback"}

\* A transaction whose COMMIT threw has issued ROLLBACK after it and released
\* its client.
C28_Witness ==
    \E c \in DOMAIN call :
        /\ TransactionDone(c)
        /\ call[c].log = <<"BEGIN", "COMMIT", "ROLLBACK">>
        /\ call[c].released = 1

----------------------------------------------------------------------------
\* createUser has finished, by returning or by throwing, and its INSERT INTO
\* users stored a row.
CreatedUser(c) ==
    /\ call[c].op = "createUser" /\ call[c].pc = "done"
    /\ \E u \in users : u.id = call[c].id

\* C29: every users row createUser created has its user_settings row: createUser
\* never leaves a users row without the default user_settings row, also when the
\* second INSERT fails.
C29_UserHasSettings ==
    \A c \in DOMAIN call : CreatedUser(c) => call[c].id \in settings

----------------------------------------------------------------------------
\* C30: a Database instance constructs at most one Pool, also when several
\* query() calls start while the first connect() has not finished, and every
\* client a call acquires is released exactly once, whether its statement
\* succeeds or throws: a call holds at most one client and none when it is over.
C30_OnePoolClientsReleased ==
    /\ db.pools <= 1
    /\ db.pool <=> db.pools = 1
    /\ \A c \in DOMAIN call :
           /\ call[c].released <= call[c].acquired
           /\ call[c].acquired <= call[c].released + 1
           /\ call[c].pc = "done" => call[c].released = call[c].acquired

\* While the query() that found this.pool null still tests the connection, a
\* second query() has used the same Pool: its statement threw and its client
\* was released.
C30_Witness ==
    \E c \in DOMAIN call, d \in DOMAIN call :
        /\ call[c].op = "query" /\ call[c].pc = "conn_test"
        /\ call[d].op = "query" /\ call[d].pc = "done"
        /\ call[d].error = "env"
        /\ call[d].acquired = 1 /\ call[d].released = 1
        /\ db.pools = 1

====
